---- MODULE Spec2Model ----
(***************************************************************************)
(* Model of src/utils/objaverse_json.py: the manifest store                *)
(* (load_existing_json, save_to_json, find_next_available_id), the mesh    *)
(* normaliser (convert_glb_to_obj) and the batch loop (update_json).       *)
(*                                                                         *)
(* One run of update_json is StartRun (lines 68-71), one LoopStep per      *)
(* iteration of the for loop (lines 73-95) and FinalSave (line 97).  An    *)
(* uncaught Python exception ends the run in pc = "raised".                *)
(***************************************************************************)
EXTENDS Integers, Sequences, FiniteSets

\* ---- bounds of the model -------------------------------------------------
\* catalogue uids 1..NumIds
NumIds == 2
\* records of the manifest file before the first run
MaxFileLen == 2
\* largest obj_id of such a record
MaxObjId == 2
\* records handed to find_next_available_id on its own
MaxRecs == 3
\* largest obj_id among them
MaxUsedId == 3

\* ---- program constant ----------------------------------------------------
CheckpointInterval == 250

VARIABLES
    file,            \* the manifest file on disk
    objs,            \* uids whose model_scaled.obj has been exported
    assets,          \* what the downloaded .glb of each uid turned out to be
    pc,              \* "idle" | "loop" | "done" | "raised"; "pure" | "found"
                     \* when find_next_available_id is applied on its own
    exc,             \* the exception that ended the run, or "none"
    objaverse_dict,  \* the requests of the run, in iteration order (uids)
    idx,             \* number of loop iterations completed
    existing_data,   \* the in-memory manifest
    existing_map,    \* objaverse ids known at load
    new_id,          \* last result of find_next_available_id
    start_file,      \* the manifest file as the current run found it
    saved,           \* log of save_to_json calls of the current run
    converted,       \* uids passed to convert_glb_to_obj in the current run
    rerun            \* the current run repeats the previous run's requests

vars == <<file, objs, assets, pc, exc, objaverse_dict, idx, existing_data,
          existing_map, new_id, start_file, saved, converted, rerun>>

Ids == 1..NumIds

\* ---- manifest records and files -----------------------------------------
GroupOf(uid) == IF uid % 2 = 0 THEN "000-000" ELSE "000-001"

PathOf(uid) == <<"hf-objaverse-v1", "glbs", GroupOf(uid), "uid.glb">>

Record(obj, uid, gid, scale) ==
    [obj_id |-> obj, objaverse_id |-> uid, github_id |-> gid, norm_scale |-> scale]

\* uids a manifest file may record: the catalogue's, and uid 0, which no
\* batch requests
FileUids == 0..NumIds

ValidRecords == { Record(o, u, GroupOf(u), 1) : o \in 0..MaxObjId, u \in FileUids }

\* items that json.load accepts but that lack a key of a manifest record
BrokenRecords ==
    { [objaverse_id |-> u, github_id |-> GroupOf(u), norm_scale |-> 1] : u \in Ids }
    \cup { [obj_id |-> o, github_id |-> "000-000", norm_scale |-> 1] : o \in 0..MaxObjId }

SeqsUpTo(S, n) == UNION { [1..k -> S] : k \in 0..n }

Absent == [kind |-> "absent", items |-> <<>>]
Unparseable == [kind |-> "unparseable", items |-> <<>>]
ListFile(items) == [kind |-> "list", items |-> items]

InitialFiles ==
    {Absent, Unparseable}
    \cup { ListFile(s) : s \in SeqsUpTo(ValidRecords, MaxFileLen) }
    \cup { ListFile(<<b>>) : b \in BrokenRecords }
    \cup { ListFile(<<v, b>>) : v \in {Record(0, 1, GroupOf(1), 1)}, b \in BrokenRecords }

HasKey(item, k) == k \in DOMAIN item

\* load_existing_json
LoadRaises(f) == f.kind = "unparseable"
load_existing_json(f) == IF f.kind = "absent" THEN <<>> ELSE f.items

\* save_to_json: a full-replace write
save_to_json(data) == ListFile(data)

\* ---- find_next_available_id ----------------------------------------------
UsedIds(data) == { data[i].obj_id : i \in DOMAIN data }

RECURSIVE Probe(_, _)
Probe(used_ids, n) == IF n \in used_ids THEN Probe(used_ids, n + 1) ELSE n

FindRaises(data) == \E i \in DOMAIN data : ~HasKey(data[i], "obj_id")

\* faulty variants: the number of records taken for the next id; the last
\* record's obj_id plus one taken for it
FindNextByCount(data) == Len(data)

FindNextAfterLast(data) == IF data = <<>> THEN 0 ELSE data[Len(data)].obj_id + 1

find_next_available_id(data) == Probe(UsedIds(data), 0)

\* ---- convert_glb_to_obj --------------------------------------------------
Asset(kind, geometry, extents, exportable) ==
    [kind |-> kind, geometry |-> geometry, extents |-> extents, exportable |-> exportable]

Unknown == Asset("unknown", <<>>, <<0, 0, 0>>, FALSE)
Unreadable == Asset("unreadable", <<>>, <<0, 0, 0>>, FALSE)

AssetKinds ==
    { Unreadable,
      Asset("scene", <<"Trimesh", "PointCloud">>, <<2, 4, 1>>, TRUE),
      Asset("scene", <<"Trimesh", "Trimesh">>, <<2, 4, 1>>, TRUE),
      Asset("mesh", <<"Trimesh">>, <<0, 0, 0>>, TRUE),
      Asset("mesh", <<"Trimesh">>, <<1, 1, 2>>, FALSE) }

\* faulty variant: the smallest extent taken for the scale
MinExtent(extents) ==
    CHOOSE m \in { extents[i] : i \in DOMAIN extents } :
        \A i \in DOMAIN extents : m <= extents[i]

MaxExtent(extents) ==
    CHOOSE m \in { extents[i] : i \in DOMAIN extents } :
        \A i \in DOMAIN extents : extents[i] <= m

Outcome(status, scale, rescaled, exported) ==
    [status |-> status, norm_scale |-> scale, rescaled |-> rescaled, exported |-> exported]

convert_glb_to_obj(asset) ==
    IF asset.kind = "unreadable"
    THEN Outcome("None", 0, FALSE, FALSE)
    ELSE IF asset.kind = "scene"
            /\ \E i \in DOMAIN asset.geometry : asset.geometry[i] # "Trimesh"
    THEN Outcome("None", 0, FALSE, FALSE)
    ELSE LET norm_scale == MaxExtent(asset.extents) IN
         IF asset.exportable
         THEN Outcome("return", norm_scale, norm_scale > 0, TRUE)
         ELSE Outcome("raise", norm_scale, norm_scale > 0, FALSE)

\* ---- requests -------------------------------------------------------------
Distinct(s) == \A i, j \in DOMAIN s : i # j => s[i] # s[j]

\* a dict has each key once
ShortRequests == { s \in SeqsUpTo(Ids, NumIds) : Distinct(s) }

Filler == [i \in 1..(CheckpointInterval - 1) |-> NumIds + i]

\* batches long enough to reach index CheckpointInterval: one request at
\* index 0, unreadable downloads up to index CheckpointInterval - 1, and the
\* rest from index CheckpointInterval on
LongRequests ==
    { <<s[1]>> \o Filler \o SubSeq(s, 2, Len(s)) :
        s \in { t \in ShortRequests : Len(t) >= 2 } }

LongFiles == {Absent} \cup { ListFile(<<r>>) : r \in ValidRecords }

AssetOf(uid, a) == IF uid \in Ids THEN a ELSE Unreadable

\* ---- update_json ----------------------------------------------------------
\* faulty variant: the set of known ids is left empty
KnownIdsNone(data) == {}

KnownIds(data) == { data[i].objaverse_id : i \in DOMAIN data }

\* faulty variant: the membership test never finds an id
IsKnownNever(uid, known) == FALSE

IsKnown(uid, known) == uid \in known

\* faulty variant: the checkpoint counts positions from 1
IsCheckpointOneBased(i) == (i + 1) % CheckpointInterval = 0

IsCheckpoint(i) == i % CheckpointInterval = 0

\* faulty variant: the new record is put in front
PrependRecord(data, rec) == <<rec>> \o data

AppendRecord(data, rec) == Append(data, rec)

SaveEntry(at, final, data) == [at |-> at, final |-> final, data |-> data]

Init ==
    /\ file \in InitialFiles
    /\ objs = {}
    /\ assets = [u \in Ids |-> Unknown]
    /\ pc = "idle"
    /\ exc = "none"
    /\ objaverse_dict = <<>>
    /\ idx = 0
    /\ existing_data = <<>>
    /\ existing_map = {}
    /\ new_id = 0
    /\ start_file = Absent
    /\ saved = <<>>
    /\ converted = {}
    /\ rerun = FALSE

\* lines 68-71: load the manifest and build the set of known ids
StartRun(requests) ==
    /\ pc \in {"idle", "done", "raised"}
    /\ new_id' = 0
    /\ rerun' = (pc \in {"done", "raised"} /\ requests = objaverse_dict)
    /\ objaverse_dict' = requests
    /\ start_file' = file
    /\ idx' = 0
    /\ saved' = <<>>
    /\ converted' = {}
    /\ IF LoadRaises(file)
       THEN /\ pc' = "raised"
            /\ exc' = "JSONDecodeError"
            /\ existing_data' = <<>>
            /\ existing_map' = {}
       ELSE LET data == load_existing_json(file) IN
            /\ existing_data' = data
            /\ IF \E i \in DOMAIN data : ~HasKey(data[i], "objaverse_id")
               THEN /\ pc' = "raised"
                    /\ exc' = "KeyError"
                    /\ existing_map' = {}
               ELSE /\ pc' = "loop"
                    /\ exc' = "none"
                    /\ existing_map' = KnownIds(data)
    /\ UNCHANGED <<file, objs, assets>>

\* lines 73-95: one iteration of the loop.  What the .glb of a uid holds is
\* fixed the first time it is loaded (assets) and is the same in later runs.
LoopStep ==
    /\ pc = "loop"
    /\ idx < Len(objaverse_dict)
    /\ LET objaverse_id == objaverse_dict[idx + 1]
           path == PathOf(objaverse_id)
           github_id == path[Len(path) - 1]
       IN
       IF IsKnown(objaverse_id, existing_map)
       THEN /\ idx' = idx + 1
            /\ UNCHANGED <<file, objs, assets, pc, exc, existing_data, new_id,
                           saved, converted>>
       ELSE \E a \in AssetKinds :
            /\ objaverse_id \in Ids => assets[objaverse_id] \in {Unknown, a}
            /\ assets' = IF objaverse_id \in Ids
                         THEN [assets EXCEPT ![objaverse_id] = a]
                         ELSE assets
            /\ converted' = converted \cup {objaverse_id}
            /\ LET out == convert_glb_to_obj(AssetOf(objaverse_id, a)) IN
               /\ objs' = IF out.exported THEN objs \cup {objaverse_id} ELSE objs
               /\ IF out.status = "raise"
                  THEN /\ pc' = "raised"
                       /\ exc' = "ExportError"
                       /\ UNCHANGED <<file, idx, existing_data, new_id, saved>>
                  ELSE IF out.status = "None"
                  THEN /\ idx' = idx + 1
                       /\ UNCHANGED <<file, pc, exc, existing_data, new_id, saved>>
                  ELSE IF FindRaises(existing_data)
                  THEN /\ pc' = "raised"
                       /\ exc' = "KeyError"
                       /\ UNCHANGED <<file, idx, existing_data, new_id, saved>>
                  ELSE LET id == find_next_available_id(existing_data)
                           data == AppendRecord(existing_data,
                                       Record(id, objaverse_id, github_id, out.norm_scale))
                       IN
                       /\ new_id' = id
                       /\ existing_data' = data
                       /\ idx' = idx + 1
                       /\ UNCHANGED <<pc, exc>>
                       /\ IF IsCheckpoint(idx)
                          THEN /\ file' = save_to_json(data)
                               /\ saved' = Append(saved, SaveEntry(idx, FALSE, data))
                          ELSE UNCHANGED <<file, saved>>
    /\ UNCHANGED <<objaverse_dict, existing_map, start_file, rerun>>

\* line 97: the save after the loop
FinalSave ==
    /\ pc = "loop"
    /\ idx = Len(objaverse_dict)
    /\ file' = save_to_json(existing_data)
    /\ saved' = Append(saved, SaveEntry(idx, TRUE, existing_data))
    /\ pc' = "done"
    /\ UNCHANGED <<objs, assets, exc, objaverse_dict, idx, existing_data,
                   existing_map, new_id, start_file, converted, rerun>>

\* between runs somebody deletes one record of the manifest file by hand
ExternalEdit ==
    /\ pc \in {"done", "raised"}
    /\ file.kind = "list"
    /\ \E k \in DOMAIN file.items :
         file' = ListFile([i \in 1..(Len(file.items) - 1) |->
                              IF i < k THEN file.items[i] ELSE file.items[i + 1]])
    /\ pc' = "idle"
    /\ UNCHANGED <<objs, assets, exc, objaverse_dict, idx, existing_data,
                   existing_map, new_id, start_file, saved, converted, rerun>>

Next ==
    \/ \E requests \in ShortRequests : StartRun(requests)
    \/ LoopStep
    \/ FinalSave
    \/ ExternalEdit

Spec == Init /\ [][Next]_vars

\* ---- one run over a long batch --------------------------------------------
InitLong == Init /\ file \in LongFiles

NextLong ==
    \/ \E requests \in LongRequests : pc = "idle" /\ StartRun(requests)
    \/ LoopStep
    \/ FinalSave

SpecLong == InitLong /\ [][NextLong]_vars

\* ---- find_next_available_id applied to arbitrary manifests ----------------
\* manifests of up to MaxRecs records with any obj_id values: gaps, repeats,
\* any order
IdLists == SeqsUpTo(0..MaxUsedId, MaxRecs)

ManifestOf(ids) == [i \in DOMAIN ids |-> Record(ids[i], i, GroupOf(i), 1)]

InitIds ==
    /\ existing_data \in { ManifestOf(ids) : ids \in IdLists }
    /\ pc = "pure"
    /\ file = Absent
    /\ objs = {}
    /\ assets = [u \in Ids |-> Unknown]
    /\ exc = "none"
    /\ objaverse_dict = <<>>
    /\ idx = 0
    /\ existing_map = {}
    /\ new_id = 0
    /\ start_file = Absent
    /\ saved = <<>>
    /\ converted = {}
    /\ rerun = FALSE

FindNext ==
    /\ pc = "pure"
    /\ new_id' = find_next_available_id(existing_data)
    /\ pc' = "found"
    /\ UNCHANGED <<file, objs, assets, exc, objaverse_dict, idx, existing_data,
                   existing_map, start_file, saved, converted, rerun>>

NextIds == FindNext

SpecIds == InitIds /\ [][NextIds]_vars

\* ==== properties ===========================================================

IsPrefix(a, b) == Len(a) <= Len(b) /\ \A i \in DOMAIN a : a[i] = b[i]

Last(s) == s[Len(s)]

\* the file is absent, or a list of items that all carry obj_id and objaverse_id
ValidManifest(f) ==
    /\ f.kind \in {"absent", "list"}
    /\ \A i \in DOMAIN f.items :
         HasKey(f.items[i], "obj_id") /\ HasKey(f.items[i], "objaverse_id")

\* the objaverse ids a manifest file records
RecordedIds(f) ==
    { f.items[i].objaverse_id :
        i \in { j \in DOMAIN f.items : HasKey(f.items[j], "objaverse_id") } }

\* the records the current run found in the file
Loaded == load_existing_json(start_file)

\* the records the current run appended
Appended == SubSeq(existing_data, Len(Loaded) + 1, Len(existing_data))

AssetNow(uid) == IF uid \in Ids THEN assets[uid] ELSE Unreadable

ConvertsOk(uid) == convert_glb_to_obj(AssetNow(uid)).status = "return"

ObjIdsDistinct(data) ==
    \A i, j \in DOMAIN data : i # j => data[i].obj_id # data[j].obj_id

UidsDistinct(data) ==
    \A i, j \in DOMAIN data : i # j => data[i].objaverse_id # data[j].objaverse_id

\* ---- C1 ------------------------------------------------------------------
\* C1: for every sequence of manifest records (empty, with gaps, with
\* repeated or unordered ids) find_next_available_id returns the smallest
\* non-negative integer that is no record's obj_id; for ids {0,1,3} it is 2.
C1_SmallestUnusedId ==
    pc = "found" =>
        /\ new_id \in Nat
        /\ new_id \notin UsedIds(existing_data)
        /\ \A m \in 0..(new_id - 1) : m \in UsedIds(existing_data)
        /\ UsedIds(existing_data) = {0, 1, 3} => new_id = 2

C1_Witness ==
    pc = "found" /\ UsedIds(existing_data) = {0, 1, 3} /\ new_id = 2

\* ---- C2 ------------------------------------------------------------------
\* C2: a run that repeats the previous run's requests (same conversion
\* outcome per asset) passes no request whose objaverse_id the manifest
\* records to convert_glb_to_obj, and ends with a manifest file recording the
\* same set of objaverse_id values as the file it started from.
C2_IdempotentRerun ==
    rerun =>
        /\ converted \cap RecordedIds(start_file) = {}
        /\ pc \in {"done", "raised"} => RecordedIds(file) = RecordedIds(start_file)

C2_Witness ==
    /\ rerun
    /\ pc = "done"
    /\ converted # {}
    /\ \E i \in DOMAIN objaverse_dict : objaverse_dict[i] \in RecordedIds(start_file)

\* ---- C3 ------------------------------------------------------------------
\* C3: a request whose conversion fails (load failure, non-mesh geometry,
\* export failure) adds no record, the failure does not leave its loop
\* iteration, and the run goes on to the later requests and the final save.
C3_FailureIsolation ==
    (pc \in {"loop", "done", "raised"} /\ ValidManifest(start_file)) =>
        /\ exc = "none"
        /\ pc # "raised"
        /\ \A u \in converted :
             ~ConvertsOk(u) => u \notin KnownIds(existing_data)

\* ---- C4 ------------------------------------------------------------------
\* C4: every run whose manifest load succeeds ends with a save made after the
\* loop, and the file then holds the loaded records followed by one record
\* per new, successfully converted request, in request order.
NewAndOk(uid) == uid \notin KnownIds(Loaded) /\ ConvertsOk(uid)

C4_FinalDurableState ==
    (pc \in {"done", "raised"} /\ ValidManifest(start_file)) =>
        /\ saved # <<>>
        /\ Last(saved).final
        /\ file = ListFile(Last(saved).data)
        /\ IsPrefix(Loaded, file.items)
        /\ [i \in 1..(Len(file.items) - Len(Loaded)) |->
               file.items[Len(Loaded) + i].objaverse_id]
           = SelectSeq(objaverse_dict, NewAndOk)

\* ---- C5 ------------------------------------------------------------------
\* C5: when the manifest file exists but is not the expected structure, the
\* run aborts before any request is converted, no output file is written and
\* the manifest file is never written.
C5_CorruptManifestFatal ==
    (pc \in {"loop", "done", "raised"} /\ ~ValidManifest(start_file)) =>
        /\ pc # "done"
        /\ converted = {}
        /\ objs \cap { objaverse_dict[i] : i \in DOMAIN objaverse_dict } = {}
        /\ saved = <<>>
        /\ file = start_file

\* ---- C6 ------------------------------------------------------------------
\* C6 as stated: every record update_json appends has norm_scale > 0.
C6_ScalePositive ==
    \A i \in DOMAIN Appended : Appended[i].norm_scale > 0

\* C6 amended: every record update_json appends has norm_scale >= 0, the
\* largest bounding-box extent of its mesh; a mesh whose largest extent is 0
\* is exported without rescaling and does get a record, with norm_scale 0.
C6_ScaleIsLargestExtent ==
    /\ \A i \in DOMAIN Appended :
         LET r == Appended[i]
             extents == AssetNow(r.objaverse_id).extents
         IN /\ r.norm_scale >= 0
            /\ \E k \in DOMAIN extents : extents[k] = r.norm_scale
            /\ \A k \in DOMAIN extents : extents[k] <= r.norm_scale
    /\ (pc \in {"loop", "done", "raised"} /\ ValidManifest(start_file)) =>
         \A u \in converted :
             (ConvertsOk(u) /\ \A k \in DOMAIN AssetNow(u).extents :
                                   AssetNow(u).extents[k] = 0)
             => /\ ~convert_glb_to_obj(AssetNow(u)).rescaled
                /\ \E i \in DOMAIN Appended :
                     Appended[i].objaverse_id = u /\ Appended[i].norm_scale = 0

C6_Witness ==
    /\ pc = "done"
    /\ \E i \in DOMAIN file.items :
         /\ i > Len(Loaded)
         /\ file.items[i].norm_scale = 0

\* ---- C7 ------------------------------------------------------------------
\* C7: a run that loaded a manifest with distinct obj_id values keeps them
\* distinct in memory after every iteration and in every manifest it saves
\* (so across runs too, whatever was deleted from the file in between).
C7_ObjIdUnique ==
    (ValidManifest(start_file) /\ ObjIdsDistinct(Loaded)) =>
        /\ ObjIdsDistinct(existing_data)
        /\ \A k \in DOMAIN saved : ObjIdsDistinct(saved[k].data)
        /\ saved # <<>> => ObjIdsDistinct(file.items)

\* a later run (its manifest is longer than any initial one) fills a gap
\* below an obj_id it loaded
C7_Witness ==
    /\ Len(Loaded) > MaxFileLen
    /\ pc = "done"
    /\ ValidManifest(start_file)
    /\ ObjIdsDistinct(Loaded)
    /\ Len(Appended) >= 1
    /\ \E i \in DOMAIN Loaded : Loaded[i].obj_id > Appended[1].obj_id

\* ---- C8 ------------------------------------------------------------------
\* C8: a run that loaded a manifest with distinct objaverse_id values keeps
\* them distinct in memory after every iteration and in every manifest it
\* saves, although existing_map is built once at load.
C8_UidUnique ==
    (ValidManifest(start_file) /\ UidsDistinct(Loaded)) =>
        /\ UidsDistinct(existing_data)
        /\ \A k \in DOMAIN saved : UidsDistinct(saved[k].data)
        /\ saved # <<>> => UidsDistinct(file.items)

\* a run that skipped a known request and appended another one
C8_Witness ==
    /\ pc = "done"
    /\ ValidManifest(start_file)
    /\ UidsDistinct(Loaded)
    /\ Len(Appended) >= 1
    /\ \E i \in DOMAIN objaverse_dict : objaverse_dict[i] \in existing_map

\* ---- C9 ------------------------------------------------------------------
\* C9: within a run the in-memory manifest only grows at its end (no record
\* is removed, moved or changed), every save writes the whole current
\* sequence, every saved manifest starts with the loaded records and every
\* later save extends the one before.
C9_AppendOnly ==
    /\ [](/\ IsPrefix(Loaded, existing_data)
          /\ \A k \in DOMAIN saved :
               /\ IsPrefix(Loaded, saved[k].data)
               /\ k > 1 => IsPrefix(saved[k - 1].data, saved[k].data))
    /\ [][/\ pc = "loop" => IsPrefix(existing_data, existing_data')
          /\ Len(saved') > Len(saved) =>
               /\ Last(saved').data = existing_data'
               /\ file' = ListFile(existing_data')]_vars

\* three saves in one run, each longer than the one before
C9_Witness ==
    /\ pc = "done"
    /\ Len(Loaded) >= 1
    /\ Len(saved) = 3
    /\ Len(saved[1].data) < Len(saved[2].data)
    /\ Len(saved[2].data) <= Len(saved[3].data)

\* ---- C10 -----------------------------------------------------------------
CheckpointAt(i) == \E k \in DOMAIN saved : ~saved[k].final /\ saved[k].at = i

\* request number i (from 0) was new and converted, so it got a record
AddedAt(i) ==
    /\ objaverse_dict[i + 1] \notin existing_map
    /\ ConvertsOk(objaverse_dict[i + 1])

\* C10 as stated: the manifest is saved at every loop position that is a
\* multiple of the checkpoint interval, whatever happened to the request
\* there (skipped as known, failed or added).
C10_SavedAtEveryMultiple ==
    \A i \in 0..(idx - 1) : i % CheckpointInterval = 0 => CheckpointAt(i)

\* C10 amended: inside the loop the manifest is saved exactly at the loop
\* positions (counted from 0 over all requests, skipped and failed ones
\* included) that are a multiple of 250 and whose own request was new and
\* converted; the save holds the records up to that request's.
C10_SavedAtMultipleWhenAdded ==
    /\ \A i \in 0..(idx - 1) :
         CheckpointAt(i) <=> (i % CheckpointInterval = 0 /\ AddedAt(i))
    /\ \A k \in DOMAIN saved :
         ~saved[k].final =>
             /\ IsPrefix(saved[k].data, existing_data)
             /\ Last(saved[k].data).objaverse_id = objaverse_dict[saved[k].at + 1]

\* a save at position 250 after requests that failed, and none at position 0
C10_Witness ==
    /\ pc = "done"
    /\ CheckpointAt(CheckpointInterval)
    /\ ~CheckpointAt(0)

====
